---- MODULE Spec2Model ----
(***************************************************************************)
(* The E3DC switch platform (custom_components/e3dc_rscp/switch.py): the   *)
(* static catalog SWITCHES, the entity factory async_setup_entry and the   *)
(* toggle entity E3DCSwitch, run by the host's single-threaded event loop. *)
(*                                                                         *)
(* Python's True, False and None are the strings "True", "False", "None".  *)
(* A handler runs atomically up to its await: one action per handler, one  *)
(* action for the resumption of a pending await.  `log` is the execution   *)
(* trace: each handler's entry, each async_write_ha_state and each         *)
(* coordinator method invocation, in program order.                        *)
(***************************************************************************)
EXTENDS Naturals, Sequences, FiniteSets, TLC

VARIABLES
    pc,               \* "start" | "done" | "KeyError" | "IndexError" (async_setup_entry);
                      \* "new" | "entity" (an E3DCSwitch constructed on its own)
    entry_unique_id,  \* entry.unique_id, the uid handed to E3DCSwitch
    wallboxes,        \* coordinator.wallboxes
    data,             \* coordinator.data, a mapping from keys to "True" / "False"
    entities,         \* the entities handed to async_add_entities (their immutable fields)
    is_on,            \* _attr_is_on of each entity
    log,              \* the execution trace
    result            \* per invoked coordinator method (its place in log): "pending" or its outcome

vars == <<pc, entry_unique_id, wallboxes, data, entities, is_on, log, result>>

-----------------------------------------------------------------------------
(* Bounds *)

\* Handler invocations (turn-on, turn-off, coordinator update) on a lone entity.
MaxEvents == 3
\* Handler invocations after async_setup_entry.
MaxSetupEvents == 1
\* Length of coordinator.wallboxes.
MaxWallboxes == 2

-----------------------------------------------------------------------------
(* Descriptors *)

None == "None"
PyBool == {"True", "False"}

\* A descriptor field async_turn_on_action / async_turn_off_action left at its default None.
NoAction == [method |-> None, args |-> <<>>]

\* A lambda bound to a coordinator method with its closed-over arguments.
Action(method, args) == [method |-> method, args |-> args]

E3DCSwitchEntityDescription(key, on_icon, off_icon, on_action, off_action) ==
    [key |-> key, on_icon |-> on_icon, off_icon |-> off_icon,
     async_turn_on_action |-> on_action, async_turn_off_action |-> off_action]

SWITCHES ==
    << E3DCSwitchEntityDescription(
           "pset-powersaving-enabled", "mdi:leaf", "mdi:leaf-off",
           Action("async_set_powersave", <<"True">>),
           Action("async_set_powersave", <<"False">>)),
       E3DCSwitchEntityDescription(
           "pset-weatherregulationenabled", "mdi:weather-sunny", "mdi:weather-sunny-off",
           Action("async_set_weather_regulated_charge", <<"True">>),
           Action("async_set_weather_regulated_charge", <<"False">>)) >>

-----------------------------------------------------------------------------
(* The coordinator, as this file uses it *)

\* coordinator.data.get(key)
DataGet(d, key) == IF key \in DOMAIN d THEN d[key] ELSE None

\* coordinator.device_info()
CoordinatorDeviceInfo == [identifiers |-> {<<"e3dc_rscp", "main-unit">>}]

WallboxPool ==
    { [index |-> 0, key |-> "wallbox-1",
       deviceInfo |-> [identifiers |-> {<<"e3dc_rscp", "wb-a">>}]],
      [index |-> 1, key |-> "wallbox-2",
       deviceInfo |-> [identifiers |-> {<<"e3dc_rscp", "wb-b">>, <<"e3dc_rscp", "wb-b2">>}]],
      \* malformed: an empty identifiers set
      [index |-> 2, key |-> "wallbox-3",
       deviceInfo |-> [identifiers |-> {}]],
      \* malformed: no identifiers entry
      [index |-> 3, key |-> "wallbox-4",
       deviceInfo |-> [name |-> "Wallbox"]] }

WallboxLists ==
    { ws \in UNION { [1..n -> WallboxPool] : n \in 0..MaxWallboxes } :
        \A i, j \in DOMAIN ws : ws[i] = ws[j] => i = j }

SunModeKey(wallbox_key) == wallbox_key \o "-sun-mode"
SchukoKey(wallbox_key) == wallbox_key \o "-schuko"

AllKeys ==
    { SWITCHES[i].key : i \in DOMAIN SWITCHES }
        \cup { SunModeKey(w.key) : w \in WallboxPool }
        \cup { SchukoKey(w.key) : w \in WallboxPool }

\* The coordinator's current-value mappings considered: empty, every key true,
\* and the first catalog key alone, false.
DataPool ==
    { [k \in {} |-> "True"],
      [k \in AllKeys |-> "True"],
      [k \in {SWITCHES[1].key} |-> "False"] }

-----------------------------------------------------------------------------
(* E3DCSwitch *)

\* Faulty variant: the key put before the uid.
UniqueIdKeyFirst(uid, key) == key \o "_" \o uid

UniqueId(uid, key) == uid \o "_" \o key

\* The parameter device_info left at its default None.
NoDeviceInfo == [none |-> None]

\* E3DCSwitch.__init__: the immutable fields.
E3DCSwitch(description, uid, device_info) ==
    [entity_description |-> description,
     unique_id |-> UniqueId(uid, description.key),
     has_custom_icons |-> (description.on_icon # None /\ description.off_icon # None),
     deviceInfo |-> IF device_info # NoDeviceInfo THEN device_info ELSE CoordinatorDeviceInfo]

\* Faulty variant: an absent key read as off.
InitialIsOnDefaultOff(d, description) ==
    IF description.key \in DOMAIN d THEN d[description.key] ELSE "False"

\* E3DCSwitch.__init__: the initial _attr_is_on.
InitialIsOn(d, description) == DataGet(d, description.key)

\* _attr_icon: never set by this file.
AttrIcon == None

\* E3DCSwitch.icon, read with is_on = v.
icon(e, v) ==
    IF entities[e].has_custom_icons
    THEN IF v = "True"
         THEN entities[e].entity_description.on_icon
         ELSE entities[e].entity_description.off_icon
    ELSE AttrIcon

\* Trace events.
Enter(handler, e) == [ev |-> handler, e |-> e]
WriteHaState(e, v) == [ev |-> "async_write_ha_state", e |-> e, state |-> v, icon |-> icon(e, v)]
Invoke(e, action) == [ev |-> "call", e |-> e, method |-> action.method, args |-> action.args]

\* Faulty variant: the update is skipped while a call of the entity is pending.
handle_coordinator_update_unless_pending(e) ==
    LET v == DataGet(data, entities[e].entity_description.key)
    IN  IF \E p \in DOMAIN result : result[p] = "pending" /\ log[p].e = e
        THEN [is_on |-> is_on[e], out |-> <<>>]
        ELSE [is_on |-> v, out |-> <<WriteHaState(e, v)>>]

\* Faulty variant: no test that an action is bound.
async_turn_on_unguarded(e) ==
    LET action == entities[e].entity_description.async_turn_on_action
    IN  IF action # NoAction
        THEN [is_on |-> "True", out |-> <<WriteHaState(e, "True"), Invoke(e, action)>>]
        ELSE [is_on |-> "True", out |-> <<WriteHaState(e, "True")>>]

\* Faulty variant: the action is invoked before the state is published.
async_turn_on_invoke_first(e) ==
    LET action == entities[e].entity_description.async_turn_on_action
    IN  IF action # NoAction
        THEN [is_on |-> "True", out |-> <<Invoke(e, action), WriteHaState(e, "True")>>]
        ELSE [is_on |-> is_on[e], out |-> <<>>]

\* Faulty variant: turn-off asserts ON before invoking the turn-off action.
async_turn_off_asserts_on(e) ==
    LET action == entities[e].entity_description.async_turn_off_action
    IN  IF action # NoAction
        THEN [is_on |-> "True", out |-> <<WriteHaState(e, "True"), Invoke(e, action)>>]
        ELSE [is_on |-> is_on[e], out |-> <<>>]

\* Each handler: the new _attr_is_on and what it does, in order, up to its await.
handle_coordinator_update(e) ==
    LET v == DataGet(data, entities[e].entity_description.key)
    IN  [is_on |-> v, out |-> <<WriteHaState(e, v)>>]

async_turn_on(e) ==
    LET action == entities[e].entity_description.async_turn_on_action
    IN  IF action # NoAction
        THEN [is_on |-> "True", out |-> <<WriteHaState(e, "True"), Invoke(e, action)>>]
        ELSE [is_on |-> is_on[e], out |-> <<>>]

async_turn_off(e) ==
    LET action == entities[e].entity_description.async_turn_off_action
    IN  IF action # NoAction
        THEN [is_on |-> "False", out |-> <<WriteHaState(e, "False"), Invoke(e, action)>>]
        ELSE [is_on |-> is_on[e], out |-> <<>>]

-----------------------------------------------------------------------------
(* Reading the trace *)

Handlers == {"async_turn_on", "async_turn_off", "_handle_coordinator_update"}

HandlerCount(l) == Cardinality({ i \in DOMAIN l : l[i].ev \in Handlers })

CallPositions(l) == { i \in DOMAIN l : l[i].ev = "call" }

EventBound == IF pc = "entity" THEN MaxEvents ELSE MaxSetupEvents

Outcomes == {"True", "False", "raise"}

-----------------------------------------------------------------------------
(* Actions *)

\* A handler of entity e runs to its await (or to its end).
Run(handler, e, r) ==
    /\ e \in DOMAIN entities
    /\ HandlerCount(log) < EventBound
    /\ is_on' = [is_on EXCEPT ![e] = r.is_on]
    /\ log' = log \o <<Enter(handler, e)>> \o r.out
    /\ result' = [p \in CallPositions(log') |->
                    IF p \in DOMAIN result THEN result[p] ELSE "pending"]
    /\ UNCHANGED <<pc, entry_unique_id, wallboxes, data, entities>>

HandleCoordinatorUpdate ==
    \E e \in DOMAIN entities :
        Run("_handle_coordinator_update", e, handle_coordinator_update(e))

AsyncTurnOn ==
    \E e \in DOMAIN entities : Run("async_turn_on", e, async_turn_on(e))

AsyncTurnOff ==
    \E e \in DOMAIN entities : Run("async_turn_off", e, async_turn_off(e))

\* Faulty variant: a failed call rolls the state back and publishes it.
ResumeRollback(p, outcome) ==
    /\ result[p] = "pending"
    /\ result' = [result EXCEPT ![p] = outcome]
    /\ IF outcome = "True"
       THEN UNCHANGED <<is_on, log>>
       ELSE LET v == IF log[p].args[1] = "True" THEN "False" ELSE "True"
            IN  /\ is_on' = [is_on EXCEPT ![log[p].e] = v]
                /\ log' = Append(log, WriteHaState(log[p].e, v))
    /\ UNCHANGED <<pc, entry_unique_id, wallboxes, data, entities>>

\* The awaited coordinator method resolves: it returns a bool or raises.
\* Nothing follows the await in async_turn_on / async_turn_off.
Resume(p, outcome) ==
    /\ result[p] = "pending"
    /\ result' = [result EXCEPT ![p] = outcome]
    /\ UNCHANGED <<pc, entry_unique_id, wallboxes, data, entities, is_on, log>>

AwaitResolves ==
    \E p \in DOMAIN result : \E outcome \in Outcomes : Resume(p, outcome)

\* The coordinator polls the device and replaces its data mapping (polls before
\* any entity exists are covered by the initial choice of data).
CoordinatorPoll ==
    /\ pc \in {"done", "entity"}
    /\ \E d \in DataPool \ {data} : data' = d
    /\ UNCHANGED <<pc, entry_unique_id, wallboxes, entities, is_on, log, result>>

\* An E3DCSwitch constructed directly from a descriptor.
Descriptions ==
    { E3DCSwitchEntityDescription(SWITCHES[1].key, on_icon, off_icon, on_action, off_action) :
        on_icon \in {None, SWITCHES[1].on_icon},
        off_icon \in {None, SWITCHES[1].off_icon},
        on_action \in {NoAction, SWITCHES[1].async_turn_on_action},
        off_action \in {NoAction, SWITCHES[1].async_turn_off_action} }

NewSwitch ==
    /\ pc = "new"
    /\ \E description \in Descriptions :
        /\ entities' = <<E3DCSwitch(description, entry_unique_id, NoDeviceInfo)>>
        /\ is_on' = <<InitialIsOn(data, description)>>
    /\ pc' = "entity"
    /\ UNCHANGED <<entry_unique_id, wallboxes, data, log, result>>

InitEntity ==
    /\ pc = "new"
    /\ entry_unique_id = "e3dc-1"
    /\ wallboxes = <<>>
    /\ data \in DataPool
    /\ entities = <<>>
    /\ is_on = <<>>
    /\ log = <<>>
    /\ result = <<>>

NextEntity ==
    \/ NewSwitch
    \/ HandleCoordinatorUpdate
    \/ AsyncTurnOn
    \/ AsyncTurnOff
    \/ AwaitResolves
    \/ CoordinatorPoll

SpecEntity == InitEntity /\ [][NextEntity]_vars

-----------------------------------------------------------------------------
(* async_setup_entry *)

\* list(wallbox["deviceInfo"]["identifiers"])[0][1]: the lookup error it raises, if any.
LookupError(wallbox) ==
    IF "identifiers" \notin DOMAIN wallbox.deviceInfo THEN "KeyError"
    ELSE IF wallbox.deviceInfo.identifiers = {} THEN "IndexError"
    ELSE None

\* list(wallbox["deviceInfo"]["identifiers"])[0][1]: the values it may yield
\* (a set's iteration order is not specified).
FirstIdentifierUids(wallbox) ==
    IF LookupError(wallbox) # None THEN {}
    ELSE { id[2] : id \in wallbox.deviceInfo.identifiers }

\* Faulty variant: the lambdas read the loop variable when called (the last wallbox).
WallboxSunModeDescriptionLateBinding(ws, i) ==
    E3DCSwitchEntityDescription(
        SunModeKey(ws[i].key), "mdi:weather-sunny", "mdi:weather-sunny-off",
        Action("async_set_wallbox_sun_mode", <<"True", ws[Len(ws)].index>>),
        Action("async_set_wallbox_sun_mode", <<"False", ws[Len(ws)].index>>))

WallboxSunModeDescription(ws, i) ==
    E3DCSwitchEntityDescription(
        SunModeKey(ws[i].key), "mdi:weather-sunny", "mdi:weather-sunny-off",
        Action("async_set_wallbox_sun_mode", <<"True", ws[i].index>>),
        Action("async_set_wallbox_sun_mode", <<"False", ws[i].index>>))

WallboxSchukoDescription(ws, i) ==
    E3DCSwitchEntityDescription(
        SchukoKey(ws[i].key), "mdi:power-plug", "mdi:power-plug-off",
        Action("async_set_wallbox_schuko", <<"True", ws[i].index>>),
        Action("async_set_wallbox_schuko", <<"False", ws[i].index>>))

\* The list comprehension over SWITCHES.
RECURSIVE CatalogEntities(_, _)
CatalogEntities(uid, n) ==
    IF n = 0 THEN <<>>
    ELSE Append(CatalogEntities(uid, n - 1), E3DCSwitch(SWITCHES[n], uid, NoDeviceInfo))

\* Faulty variant: the wallbox entities get the integration's unique id.
WallboxEntitiesEntryUid(ws, i, unique_id) ==
    << E3DCSwitch(WallboxSunModeDescription(ws, i), entry_unique_id, ws[i].deviceInfo),
       E3DCSwitch(WallboxSchukoDescription(ws, i), entry_unique_id, ws[i].deviceInfo) >>

\* One iteration of the loop over coordinator.wallboxes: the two entities appended.
WallboxEntities(ws, i, unique_id) ==
    << E3DCSwitch(WallboxSunModeDescription(ws, i), unique_id, ws[i].deviceInfo),
       E3DCSwitch(WallboxSchukoDescription(ws, i), unique_id, ws[i].deviceInfo) >>

\* The loop over the first n wallboxes, first[i] being the uid read for wallbox i.
RECURSIVE WallboxLoop(_, _, _)
WallboxLoop(ws, first, n) ==
    IF n = 0 THEN <<>>
    ELSE WallboxLoop(ws, first, n - 1) \o WallboxEntities(ws, n, first[n])

\* The first wallbox whose identifier lookup raises (0: none).
FirstMalformed(ws) ==
    IF \E i \in DOMAIN ws : LookupError(ws[i]) # None
    THEN CHOOSE i \in DOMAIN ws :
            /\ LookupError(ws[i]) # None
            /\ \A j \in 1..(i - 1) : LookupError(ws[j]) = None
    ELSE 0

\* Faulty variant: the lookup error is swallowed and the catalog entities are registered.
SetupRaisesButRegisters(ws) ==
    /\ FirstMalformed(ws) # 0
    /\ pc' = "done"
    /\ entities' = CatalogEntities(entry_unique_id, Len(SWITCHES))
    /\ is_on' = [e \in DOMAIN entities' |-> InitialIsOn(data, entities'[e].entity_description)]

SetupRaises(ws) ==
    /\ FirstMalformed(ws) # 0
    /\ pc' = LookupError(ws[FirstMalformed(ws)])
    /\ UNCHANGED <<entities, is_on>>

SetupAddsEntities(ws) ==
    /\ FirstMalformed(ws) = 0
    /\ \E first \in [DOMAIN ws -> UNION { FirstIdentifierUids(w) : w \in WallboxPool }] :
        /\ \A i \in DOMAIN ws : first[i] \in FirstIdentifierUids(ws[i])
        /\ entities' = CatalogEntities(entry_unique_id, Len(SWITCHES))
                            \o WallboxLoop(ws, first, Len(ws))
    /\ is_on' = [e \in DOMAIN entities' |-> InitialIsOn(data, entities'[e].entity_description)]
    /\ pc' = "done"

AsyncSetupEntry ==
    /\ pc = "start"
    /\ (SetupRaises(wallboxes) \/ SetupAddsEntities(wallboxes))
    /\ UNCHANGED <<entry_unique_id, wallboxes, data, log, result>>

EntryUniqueIds == {"e3dc-1", "e3dc-2"}

Init ==
    /\ pc = "start"
    /\ entry_unique_id \in EntryUniqueIds
    /\ wallboxes \in WallboxLists
    /\ data \in DataPool
    /\ entities = <<>>
    /\ is_on = <<>>
    /\ log = <<>>
    /\ result = <<>>

Next ==
    \/ AsyncSetupEntry
    \/ HandleCoordinatorUpdate
    \/ AsyncTurnOn
    \/ AsyncTurnOff
    \/ AwaitResolves
    \/ CoordinatorPoll

Spec == Init /\ [][Next]_vars

-----------------------------------------------------------------------------
(* Reading the trace, for the properties *)

Max(S) == CHOOSE x \in S : \A y \in S : y <= x

\* The handler run that event p belongs to.
HandlerOf(p) == Max({ i \in 1..p : log[i].ev \in Handlers })

\* The direction of the toggle that invoked call p: "True" for turn-on, "False" for turn-off.
Direction(p) == IF log[HandlerOf(p)].ev = "async_turn_on" THEN "True" ELSE "False"

WritesOf(e) == { i \in DOMAIN log : log[i].ev = "async_write_ha_state" /\ log[i].e = e }
CallsOf(e) == { i \in DOMAIN log : log[i].ev = "call" /\ log[i].e = e }
UpdatesOf(e) == { i \in DOMAIN log : log[i].ev = "_handle_coordinator_update" /\ log[i].e = e }

\* What the host holds for entity e: the last state written to it.
NotWritten == [ev |-> "async_write_ha_state", e |-> 0, state |-> "not written", icon |-> None]
Published(e) == IF WritesOf(e) = {} THEN NotWritten ELSE log[Max(WritesOf(e))]

\* The icon the descriptor configures for a state, when it configures both.
ConfiguredIcon(e, v) ==
    IF v = "True" THEN entities[e].entity_description.on_icon
    ELSE entities[e].entity_description.off_icon

BothIcons(e) ==
    /\ entities[e].entity_description.on_icon # None
    /\ entities[e].entity_description.off_icon # None

\* The step just taken entered `handler` on entity e.
Entered(handler, e) ==
    /\ Len(log') > Len(log)
    /\ log'[Len(log) + 1] = [ev |-> handler, e |-> e]

-----------------------------------------------------------------------------
(* C1 *)

-----------------------------------------------------------------------------
(* C2 *)

\* C2: turn-on (turn-off) on an entity whose descriptor binds no turn-on (turn-off)
\* action changes no entity state, publishes nothing and invokes no coordinator
\* method, whatever the state before.
C2_UnboundIsNoOp ==
    [][\A e \in DOMAIN entities :
        ( \/ /\ Entered("async_turn_on", e)
             /\ entities[e].entity_description.async_turn_on_action = NoAction
          \/ /\ Entered("async_turn_off", e)
             /\ entities[e].entity_description.async_turn_off_action = NoAction )
        => /\ is_on' = is_on
           /\ Len(log') = Len(log) + 1
           /\ result' = result]_vars

\* Turn-on was just requested on an entity with no turn-on action, and it is still OFF.
C2_Witness ==
    /\ log # <<>>
    /\ log[Len(log)].ev = "async_turn_on"
    /\ entities[log[Len(log)].e].entity_description.async_turn_on_action = NoAction
    /\ is_on[log[Len(log)].e] = "False"

-----------------------------------------------------------------------------
(* C3 *)

-----------------------------------------------------------------------------
(* C4 *)

\* C4: a coordinator update of an entity sets its state to the mapping's value for
\* its key (None when the key is absent), whatever the state was and whether or not
\* a call is pending, and then publishes that state.
C4_UpdateOverwrites ==
    [][\A e \in DOMAIN entities :
        Entered("_handle_coordinator_update", e) =>
            LET key == entities[e].entity_description.key
                v == IF key \in DOMAIN data THEN data[key] ELSE None
            IN  /\ is_on'[e] = v
                /\ Len(log') = Len(log) + 2
                /\ log'[Len(log')].ev = "async_write_ha_state"
                /\ log'[Len(log')].e = e
                /\ log'[Len(log')].state = v]_vars

\* An update has just set an entity to unknown while its turn-on call is pending.
C4_Witness ==
    /\ Len(log) > 1
    /\ log[Len(log) - 1].ev = "_handle_coordinator_update"
    /\ is_on[log[Len(log)].e] = None
    /\ \E p \in DOMAIN result :
        /\ result[p] = "pending"
        /\ log[p].e = log[Len(log)].e
        /\ Direction(p) = "True"

-----------------------------------------------------------------------------
(* C5 *)

-----------------------------------------------------------------------------
(* C10 *)

\* The states written by toggles of e (the write that follows a toggle's entry).
OptimisticWrites(e) ==
    { i \in WritesOf(e) : i > 1 /\ log[i - 1].ev \in {"async_turn_on", "async_turn_off"} }

\* The positions of S up to n, in trace order.
RECURSIVE InOrder(_, _)
InOrder(S, n) ==
    IF n = 0 THEN <<>>
    ELSE IF n \in S THEN Append(InOrder(S, n - 1), n)
    ELSE InOrder(S, n - 1)

\* Per entity: the booleans passed to the coordinator, and the states toggles wrote.
PassedValues(e) ==
    LET ps == InOrder(CallsOf(e), Len(log)) IN [i \in DOMAIN ps |-> log[ps[i]].args[1]]
WrittenStates(e) ==
    LET ws == InOrder(OptimisticWrites(e), Len(log)) IN [i \in DOMAIN ws |-> log[ws[i]].state]

\* C10: nothing runs between a toggle's optimistic write and its invocation of the
\* coordinator method; per entity, the booleans passed to the coordinator are, in
\* order, the states the toggles wrote; and with no coordinator update since the
\* last command, the entity's state is that command's boolean.
C10_CommandsFollowWrites ==
    \A e \in DOMAIN entities :
        /\ \A p \in CallsOf(e) : (p - 1) \in OptimisticWrites(e)
        /\ \A w \in OptimisticWrites(e) : (w + 1) \in CallsOf(e)
        /\ PassedValues(e) = WrittenStates(e)
        /\ (CallsOf(e) # {} /\ \A u \in UpdatesOf(e) : u < Max(CallsOf(e))) =>
                is_on[e] = log[Max(CallsOf(e))].args[1]

\* A turn-on and then a turn-off are both pending; the entity shows OFF.
C10_Witness ==
    \E p, q \in DOMAIN result :
        /\ p < q
        /\ log[p].e = log[q].e
        /\ result[p] = "pending" /\ result[q] = "pending"
        /\ log[p].args[1] = "True" /\ log[q].args[1] = "False"
        /\ is_on[log[p].e] = "False"

-----------------------------------------------------------------------------
(* C6 *)

Malformed(wallbox) ==
    \/ "identifiers" \notin DOMAIN wallbox.deviceInfo
    \/ wallbox.deviceInfo.identifiers = {}

\* C6: when async_setup_entry has registered its entities, each descriptor of
\* SWITCHES has exactly one entity, and that entity's unique id is
\* <entry.unique_id>_<descriptor.key>, however many wallboxes there are.
C6_OneEntityPerCatalogDescriptor ==
    pc = "done" =>
        \A i \in DOMAIN SWITCHES :
            LET of == { e \in DOMAIN entities : entities[e].entity_description = SWITCHES[i] }
            IN  /\ Cardinality(of) = 1
                /\ \A e \in of :
                    entities[e].unique_id = entry_unique_id \o "_" \o SWITCHES[i].key
                /\ Cardinality({ e \in DOMAIN entities :
                        entities[e].entity_description.key = SWITCHES[i].key }) = 1

\* Setup with two wallboxes registered the power-saving entity under the entry's uid.
C6_Witness ==
    /\ pc = "done"
    /\ Len(wallboxes) = 2
    /\ entry_unique_id = "e3dc-2"
    /\ \E e \in DOMAIN entities : entities[e].unique_id = "e3dc-2_pset-powersaving-enabled"

-----------------------------------------------------------------------------
(* C7 *)

\* C7: when async_setup_entry has registered its entities, each wallbox has exactly
\* two of them, with unique ids <wallbox_uid>_<wallbox_key>-sun-mode and
\* <wallbox_uid>_<wallbox_key>-schuko, wallbox_uid being an identifier of the
\* wallbox's own device info and not the entry's unique id; and the entities number
\* the catalog's size plus twice the number of wallboxes.
C7_TwoEntitiesPerWallbox ==
    pc = "done" =>
        /\ Len(entities) = Len(SWITCHES) + 2 * Len(wallboxes)
        /\ \A j \in DOMAIN wallboxes :
            LET w == wallboxes[j]
                of == { e \in DOMAIN entities : entities[e].deviceInfo = w.deviceInfo }
            IN  /\ Cardinality(of) = 2
                /\ \E id \in w.deviceInfo.identifiers :
                    /\ id[2] # entry_unique_id
                    /\ { entities[e].unique_id : e \in of }
                        = { id[2] \o "_" \o w.key \o "-sun-mode",
                            id[2] \o "_" \o w.key \o "-schuko" }
                /\ { entities[e].entity_description.key : e \in of }
                        = { w.key \o "-sun-mode", w.key \o "-schuko" }

\* Setup with two wallboxes registered six entities, wallbox-1's under its own uid.
C7_Witness ==
    /\ pc = "done"
    /\ Len(wallboxes) = 2
    /\ Len(entities) = 6
    /\ \E e \in DOMAIN entities : entities[e].unique_id = "wb-a_wallbox-1-sun-mode"
    /\ \E e \in DOMAIN entities : entities[e].unique_id = "wb-a_wallbox-1-schuko"

-----------------------------------------------------------------------------
(* C8 *)

\* C8: with a wallbox whose identifiers are missing, async_setup_entry ends in a
\* lookup error (KeyError or IndexError); nothing recovers from it: no entity is
\* registered, for that wallbox or any other, and the platform stays failed.
C8_MalformedWallboxIsFatal ==
    (pc # "start" /\ \E j \in DOMAIN wallboxes : Malformed(wallboxes[j])) =>
        /\ pc \in {"KeyError", "IndexError"}
        /\ entities = <<>>
        /\ is_on = <<>>
        /\ log = <<>>

\* Setup failed on a second, malformed wallbox after a well-formed first one.
C8_Witness ==
    /\ pc = "KeyError"
    /\ Len(wallboxes) = 2
    /\ ~Malformed(wallboxes[1])
    /\ Malformed(wallboxes[2])
    /\ entities = <<>>

-----------------------------------------------------------------------------
(* C9 *)

====
